---- MODULE Spec2Model ----
(***************************************************************************)
(* Patient monitoring of nemoshlag/data-integrator.                        *)
(*                                                                         *)
(* Two stores are modelled, as in the repository:                          *)
(*   - the relational store of backend/migrations (tables admissions,      *)
(*     lab_tests, monitoring_queue, their generated columns, the two       *)
(*     triggers and process_monitoring_batch);                             *)
(*   - the DynamoDB store of src/ (the S3 ingestion handler, the           *)
(*     monitoring sweep and the Admission model).                          *)
(* Time is a clock in whole hours, observed at the instants of Instants.   *)
(***************************************************************************)
EXTENDS Integers, FiniteSets, Sequences, TLC

\* ------------------------------------------------------------------ bounds

\* last instant of the clock, in hours
MaxTime == 49
\* largest p_batch_size a sweep asks for
MaxBatch == 2
\* lab tests recorded per admission
MaxTests == 2
\* runs of the monitoring handler
MaxSweeps == 2
\* connections in the registry of the broadcaster
MaxConns == 3
\* throttled responses in a row to one put_item
MaxThrottles == 4

\* ------------------------------------------------------- program constants

\* SQL NULL / Python None of a nullable timestamp or integer
NULL == -999
\* needs_attention threshold of the generated column and of the model class
AttentionHours == 48
\* priority CASE thresholds of monitoring_queue.priority
CriticalHours == 48
WarningHours == 36
\* hours_since_test of the sample admission of init_local_tables.py
SampleHours == 49
\* DynamoDBClient.max_retries
MaxRetries == 3

Statuses == {"Active", "Discharged"}

\* The instants at which the clock is observed (hours since the start).
Instants == {t \in {0, 36, 40, 47, 48, 49, 50, 51} : t <= MaxTime}

\* admission_id values and the patient each belongs to; the second one
\* carries its patient's id in front of a '#'
AdmissionIds == {"A1", "P2#A2"}
PatientOf(a) == IF a = "A1" THEN "P1" ELSE "P2"

Claimers == {"c1", "c2"}

VARIABLES
    now,          \* NOW(): the current hour
    admissions,   \* table admissions: admission_id -> row
    lab_tests,    \* table lab_tests: set of <<admission_id, test_date>>
    queue,        \* table monitoring_queue: a set of rows
    claim,        \* process_monitoring_batch transactions in flight
    ddbAdmissions,\* DynamoDB admissions table: key -> item
    ddbTests,     \* DynamoDB tests table: set of <<admission_id, test_date>>
    pending,      \* LIS records stored whose admission update is still to come
    alerts,       \* the alert messages broadcast so far
    sweeps,       \* runs of the monitoring handler so far
    call          \* the last evaluation of a pure function, with its result

sqlVars == <<now, admissions, lab_tests, queue, claim>>
ddbVars == <<ddbAdmissions, ddbTests, pending, alerts, sweeps>>
vars == <<now, admissions, lab_tests, queue, claim,
          ddbAdmissions, ddbTests, pending, alerts, sweeps, call>>

\* ------------------------------------------------- generated columns (001)

\* admissions.hours_since_test: EXTRACT(EPOCH FROM (NOW() - last_test_date))/3600,
\* NULL when last_test_date is NULL
HoursSinceTest(last_test_date, t) ==
    IF last_test_date = NULL THEN NULL ELSE t - last_test_date

\* needs_attention without its status test
NeedsAttentionAnyStatus(status, last_test_date, t) ==
    \/ last_test_date = NULL
    \/ HoursSinceTest(last_test_date, t) > AttentionHours

\* admissions.needs_attention
NeedsAttentionSql(status, last_test_date, t) ==
    /\ status = "Active"
    /\ \/ last_test_date = NULL
       \/ HoursSinceTest(last_test_date, t) > AttentionHours

\* priority with > where the CASE has >=
PriorityStrict(hours) ==
    CASE hours # NULL /\ hours > CriticalHours -> 1
      [] hours # NULL /\ hours > WarningHours  -> 2
      [] OTHER                                  -> 3

\* monitoring_queue.priority: a comparison with NULL is not true, so NULL
\* falls through to ELSE
Priority(hours) ==
    CASE hours # NULL /\ hours >= CriticalHours -> 1
      [] hours # NULL /\ hours >= WarningHours  -> 2
      [] OTHER                                  -> 3

\* the row of admissions as stored by an INSERT or UPDATE at time t
AdmissionRow(a, status, last_test_date, t) ==
    [ patient_id       |-> PatientOf(a),
      admission_id     |-> a,
      status           |-> status,
      last_test_date   |-> last_test_date,
      hours_since_test |-> HoursSinceTest(last_test_date, t),
      needs_attention  |-> NeedsAttentionSql(status, last_test_date, t) ]

\* a row of monitoring_queue with its generated priority
QueueRow(p, a, hours, last_checked) ==
    [ patient_id       |-> p,
      admission_id     |-> a,
      hours_since_test |-> hours,
      last_checked     |-> last_checked,
      priority         |-> Priority(hours) ]

\* ------------------------------------------------------------ triggers (002)

RowsOf(q, p, a) == {r \in q : r.patient_id = p /\ r.admission_id = a}

\* an INSERT with no ON CONFLICT clause and no primary key to stop it
UpsertAppend(q, p, a, hours, t) == q \cup {QueueRow(p, a, hours, t)}

\* DO UPDATE SET hours_since_test = monitoring_queue.hours_since_test + NEW...
UpsertAccumulate(q, p, a, hours, t) ==
    IF RowsOf(q, p, a) = {}
    THEN q \cup {QueueRow(p, a, hours, t)}
    ELSE {IF r \in RowsOf(q, p, a)
          THEN QueueRow(p, a,
                        IF hours = NULL \/ r.hours_since_test = NULL
                        THEN NULL ELSE r.hours_since_test + hours,
                        r.last_checked)
          ELSE r : r \in q}

\* DO UPDATE SET hours_since_test on a table whose priority is an ordinary
\* column: the stored tier stays
UpsertKeepTier(q, p, a, hours, t) ==
    IF RowsOf(q, p, a) = {}
    THEN q \cup {QueueRow(p, a, hours, t)}
    ELSE {IF r \in RowsOf(q, p, a)
          THEN [r EXCEPT !.hours_since_test = hours]
          ELSE r : r \in q}

\* INSERT ... ON CONFLICT (patient_id, admission_id) DO UPDATE SET hours_since_test
Upsert(q, p, a, hours, t) ==
    IF RowsOf(q, p, a) = {}
    THEN q \cup {QueueRow(p, a, hours, t)}
    ELSE {IF r \in RowsOf(q, p, a)
          THEN QueueRow(p, a, hours, r.last_checked)
          ELSE r : r \in q}

\* DELETE FROM monitoring_queue WHERE patient_id = .. AND admission_id = ..
Remove(q, p, a) == q \ RowsOf(q, p, a)

\* update_monitoring_queue() without its ELSE branch
UpdateMonitoringQueueNoDelete(q, new, t) ==
    IF new.needs_attention
    THEN Upsert(q, new.patient_id, new.admission_id, new.hours_since_test, t)
    ELSE q

\* update_monitoring_queue(): AFTER INSERT OR UPDATE ON admissions, per row
UpdateMonitoringQueue(q, new, t) ==
    IF new.needs_attention
    THEN Upsert(q, new.patient_id, new.admission_id, new.hours_since_test, t)
    ELSE Remove(q, new.patient_id, new.admission_id)

\* update_admission_last_test(): the WHERE clause of its UPDATE
LastTestAdvances(last_test_date, test_date) ==
    last_test_date = NULL \/ test_date > last_test_date

\* ------------------------------------------- process_monitoring_batch (002)

KeyOf(r) == <<r.patient_id, r.admission_id>>

\* keys of the rows locked FOR UPDATE by the batch transactions in flight
Locked == UNION {claim[c].batch : c \in Claimers}

\* a trigger that does not wait for the row lock of a batch
LockedKeyNever(a) == FALSE

\* an INSERT, UPDATE or DELETE of the row waits while a batch holds its lock
LockedKey(a) == <<PatientOf(a), a>> \in Locked

\* the batch query without FOR UPDATE SKIP LOCKED
ClaimableIgnoringLocks(q, locked) == {r \in q : r.priority = 1}

\* the batch query with AND mq.last_checked < NOW() added to its WHERE
ClaimableUnmarked(q, locked) ==
    {r \in q : r.priority = 1 /\ KeyOf(r) \notin locked /\ r.last_checked < now}

\* WHERE mq.priority = 1 ... FOR UPDATE SKIP LOCKED: the rows a batch may take
Claimable(q, locked) == {r \in q : r.priority = 1 /\ KeyOf(r) \notin locked}

Min(x, y) == IF x <= y THEN x ELSE y

\* ORDER BY mq.hours_since_test ASC LIMIT n
TopByHoursAscending(rows, n) ==
    {S \in SUBSET rows :
        /\ Cardinality(S) = Min(n, Cardinality(rows))
        /\ \A r \in S, o \in rows \ S : r.hours_since_test <= o.hours_since_test}

\* ORDER BY mq.hours_since_test DESC LIMIT n: every set of n rows (all of
\* them when there are fewer) that no row left out is ahead of
TopByHours(rows, n) ==
    {S \in SUBSET rows :
        /\ Cardinality(S) = Min(n, Cardinality(rows))
        /\ \A r \in S, o \in rows \ S : r.hours_since_test >= o.hours_since_test}

\* DELETE FROM monitoring_queue USING batch, in place of the UPDATE
MarkCheckedDequeue(q, keys, t) == {r \in q : KeyOf(r) \notin keys}

\* UPDATE monitoring_queue SET last_checked = NOW() FROM batch
MarkChecked(q, keys, t) ==
    {IF KeyOf(r) \in keys
     THEN QueueRow(r.patient_id, r.admission_id, r.hours_since_test, t)
     ELSE r : r \in q}

\* RETURNING b.patient_id, b.hours_since_test
Returning(q, keys) ==
    {[patient_id |-> r.patient_id, hours_since_test |-> r.hours_since_test] :
        r \in {x \in q : KeyOf(x) \in keys}}

\* ROLLBACK of a batch transaction: its rows are as they were before its UPDATE
Rollback(q, undo) ==
    {r \in q : KeyOf(r) \notin {KeyOf(u) : u \in undo}} \cup undo

\* a sweep that has made no call: size is the p_batch_size of its call in
\* flight, returned what its last call gave it, undo the rows its open
\* transaction changed
IdleClaim == [phase |-> "idle", size |-> 0, batch |-> {}, returned |-> {},
              undo |-> {}, crashed |-> FALSE]

\* ------------------------------------------------ DynamoDB store (src/)

\* str.split('#')[0] on the admission ids of AdmissionIds
SplitHead(a) == IF a = "P2#A2" THEN "P2" ELSE a

\* Admission.pk / Admission.sk
ItemKey(patient_id, admission_id) ==
    [PK |-> <<"PATIENT", patient_id>>, SK |-> <<"ADMISSION", admission_id>>]

\* the key update_admission_test_date addresses
TestDateKey(admission_id) == ItemKey(SplitHead(admission_id), admission_id)

\* the item process_pms_record's Admission becomes through to_item():
\* last_test_date and hours_since_test keep their default None
PmsItem(p, a, status) ==
    [patient_id |-> p, admission_id |-> a, status |-> status,
     last_test_date |-> NULL, hours_since_test |-> NULL]

\* table.put_item: the item replaces whatever the key held
PutItem(table, key, item) ==
    [k \in DOMAIN table \cup {key} |-> IF k = key THEN item ELSE table[k]]

\* table.update_item with SET last_test_date = :date, hours_since_test = :hours:
\* the named attributes are set, the others kept; a key that holds no item
\* gets one that has only these attributes
UpdateItem(table, key, date, hours) ==
    IF key \in DOMAIN table
    THEN [table EXCEPT ![key].last_test_date = date,
                       ![key].hours_since_test = hours]
    ELSE PutItem(table, key,
                 [patient_id |-> "none", admission_id |-> "none",
                  status |-> "none",
                  last_test_date |-> date, hours_since_test |-> hours])

\* update_admission_test_date
UpdateAdmissionTestDate(table, admission_id, test_date) ==
    UpdateItem(table, TestDateKey(admission_id), test_date, 0)

\* the MonitoringIndex query of the sweep: status Active, hours >= :hours
QueryMonitoringIndex(table, hours) ==
    {k \in DOMAIN table :
        /\ table[k].status = "Active"
        /\ table[k].hours_since_test # NULL
        /\ table[k].hours_since_test >= hours}

\* Admission.needs_attention, with datetime.now() = t
NeedsAttention(status, last_test_date, t) ==
    IF status # "Active" THEN FALSE
    ELSE IF last_test_date = NULL THEN TRUE
    ELSE t - last_test_date >= AttentionHours

Init ==
    /\ ddbAdmissions = << >>
    /\ ddbTests = {}
    /\ pending = {}
    /\ alerts = {}
    /\ sweeps = 0
    /\ call = [fn |-> "none"]
    /\ now = 0
    /\ admissions = << >>
    /\ lab_tests = {}
    /\ queue = {}
    /\ claim = [c \in Claimers |-> IdleClaim]

\* the clock moves to a later instant; a batch statement in flight does not
\* last into the next hour
Tick ==
    /\ \A c \in Claimers : claim[c].phase = "idle"
    /\ \E t \in Instants : t > now /\ now' = t
    /\ UNCHANGED <<admissions, lab_tests, queue, claim>>
    /\ UNCHANGED <<ddbVars, call>>

\* INSERT INTO admissions, then trg_monitoring_queue
InsertAdmission(a, status) ==
    /\ a \notin DOMAIN admissions
    /\ ~LockedKey(a)
    /\ LET new == AdmissionRow(a, status, NULL, now) IN
         /\ admissions' = [x \in DOMAIN admissions \cup {a} |->
                              IF x = a THEN new ELSE admissions[x]]
         /\ queue' = UpdateMonitoringQueue(queue, new, now)
    /\ UNCHANGED <<now, lab_tests, claim>>
    /\ UNCHANGED <<ddbVars, call>>

\* UPDATE admissions SET status = .., then trg_monitoring_queue
UpdateAdmission(a, status) ==
    /\ a \in DOMAIN admissions
    /\ ~LockedKey(a)
    /\ LET new == AdmissionRow(a, status, admissions[a].last_test_date, now) IN
         /\ admissions' = [admissions EXCEPT ![a] = new]
         /\ queue' = UpdateMonitoringQueue(queue, new, now)
    /\ UNCHANGED <<now, lab_tests, claim>>
    /\ UNCHANGED <<ddbVars, call>>

TestsOf(a) == {x \in lab_tests : x[1] = a}

\* INSERT INTO lab_tests, then trg_update_last_test and, when its UPDATE
\* changes the admission, trg_monitoring_queue
InsertLabTest(a, test_date) ==
    /\ a \in DOMAIN admissions
    /\ test_date <= now
    /\ Cardinality(TestsOf(a)) < MaxTests
    /\ lab_tests' = lab_tests \cup {<<a, test_date>>}
    /\ IF LastTestAdvances(admissions[a].last_test_date, test_date)
       THEN /\ ~LockedKey(a)
            /\ LET new == AdmissionRow(a, admissions[a].status, test_date, now) IN
                 /\ admissions' = [admissions EXCEPT ![a] = new]
                 /\ queue' = UpdateMonitoringQueue(queue, new, now)
       ELSE UNCHANGED <<admissions, queue>>
    /\ UNCHANGED <<now, claim>>
    /\ UNCHANGED <<ddbVars, call>>

\* process_monitoring_batch(n), the CTE: select and lock the batch
ClaimSelect(c, n) ==
    /\ claim[c].phase = "idle"
    /\ \E S \in TopByHours(Claimable(queue, Locked), n) :
         claim' = [claim EXCEPT ![c] =
                      [phase |-> "selected", size |-> n,
                       batch |-> {KeyOf(r) : r \in S},
                       returned |-> {}, undo |-> {}, crashed |-> FALSE]]
    /\ UNCHANGED <<now, admissions, lab_tests, queue>>
    /\ UNCHANGED <<ddbVars, call>>

\* process_monitoring_batch(n), the UPDATE ... RETURNING over the batch
ClaimMark(c) ==
    /\ claim[c].phase = "selected"
    /\ queue' = MarkChecked(queue, claim[c].batch, now)
    /\ claim' = [claim EXCEPT ![c].phase = "marked",
                              ![c].returned = Returning(queue, claim[c].batch),
                              ![c].undo = {r \in queue : KeyOf(r) \in claim[c].batch}]
    /\ UNCHANGED <<now, admissions, lab_tests>>
    /\ UNCHANGED <<ddbVars, call>>

\* the sweep's transaction commits: its row locks are released, and the
\* sweep holds what the call returned
ClaimCommit(c) ==
    /\ claim[c].phase = "marked"
    /\ claim' = [claim EXCEPT ![c].phase = "idle", ![c].size = 0,
                              ![c].batch = {}, ![c].undo = {}]
    /\ UNCHANGED <<now, admissions, lab_tests, queue>>
    /\ UNCHANGED <<ddbVars, call>>

\* the sweep dies holding a batch it has not acted on: a transaction still
\* open is rolled back and its locks released, a committed one stays
ClaimCrash(c) ==
    /\ ~claim[c].crashed
    /\ claim[c].phase # "idle" \/ claim[c].returned # {}
    /\ queue' = Rollback(queue, claim[c].undo)
    /\ claim' = [claim EXCEPT ![c].phase = "idle", ![c].size = 0,
                              ![c].batch = {}, ![c].undo = {},
                              ![c].crashed = TRUE]
    /\ UNCHANGED <<now, admissions, lab_tests>>
    /\ UNCHANGED <<ddbVars, call>>

Next ==
    \/ Tick
    \/ \E a \in AdmissionIds, s \in Statuses : InsertAdmission(a, s)
    \/ \E a \in AdmissionIds, s \in Statuses : UpdateAdmission(a, s)
    \/ \E a \in AdmissionIds, t \in Instants : InsertLabTest(a, t)

Spec == Init /\ [][Next]_vars

\* The store with the periodic sweeps draining it: admissions are opened
\* Active, their first test is the one taken on admission.
NextBatch ==
    \/ Tick
    \/ \E a \in AdmissionIds : InsertAdmission(a, "Active")
    \/ \E a \in AdmissionIds, s \in Statuses : UpdateAdmission(a, s)
    \/ \E a \in AdmissionIds : InsertLabTest(a, 0)
    \/ \E c \in Claimers, n \in 1..MaxBatch : ClaimSelect(c, n)
    \/ \E c \in Claimers : ClaimMark(c)
    \/ \E c \in Claimers : ClaimCommit(c)

SpecBatch == Init /\ [][NextBatch]_vars

\* A ward of five admissions, all of patients P1 and P2, in the order of
\* their records in the files, each with one test taken before the clock
\* starts: 49 to 53 hours old at hour 0
WardIds == <<"A1", "P2#A2", "A3", "A4", "A5">>
WardTestDate(i) == 0 - (SampleHours - 1) - i

\* the records before the i-th have been processed
WardLoadedBefore(i) ==
    \A j \in 1..(i - 1) :
        WardIds[j] \in DOMAIN admissions /\ TestsOf(WardIds[j]) # {}

\* every admission on record has its test on record
WardTested == \A a \in DOMAIN admissions : TestsOf(a) # {}

\* The ward's records are processed in order at hour 0, as far as they get,
\* each admission with its test; the sweeps claim batches at the next
\* instant, some of them dying on the way for good, while the first
\* admission is written again.
NextClaim ==
    \/ now = 0 /\ WardTested /\ Tick /\ now' = 36
    \/ \E i \in DOMAIN WardIds :
          now = 0 /\ WardLoadedBefore(i) /\ InsertAdmission(WardIds[i], "Active")
    \/ \E i \in DOMAIN WardIds :
          now = 0 /\ InsertLabTest(WardIds[i], WardTestDate(i))
    \/ UpdateAdmission("A1", "Active")
    \/ \E c \in Claimers, n \in 1..MaxBatch :
          now > 0 /\ ~claim[c].crashed /\ ClaimSelect(c, n)
    \/ \E c \in Claimers : ClaimMark(c)
    \/ \E c \in Claimers : ClaimCommit(c)
    \/ \E c \in Claimers : ClaimCrash(c)

SpecClaim == Init /\ [][NextClaim]_vars
\* ------------------------------------------------ the Lambda handlers

\* process_csv_file on a PMS record: admissions_table.put_item(admission)
ProcessPmsRecord(p, a, status) ==
    /\ ddbAdmissions' = PutItem(ddbAdmissions, ItemKey(p, a), PmsItem(p, a, status))
    /\ UNCHANGED <<ddbTests, pending, alerts, sweeps>>
    /\ UNCHANGED <<sqlVars, call>>

DdbTestsOf(a) == {x \in ddbTests : x[1] = a}

\* process_csv_file on a LIS record: tests_table.put_item(test), then
\* update_admission_test_date(test.admission_id, test.test_date)
ProcessLisRecord(a, test_date) ==
    /\ test_date <= now
    /\ Cardinality(DdbTestsOf(a)) < MaxTests
    /\ ddbTests' = ddbTests \cup {<<a, test_date>>}
    /\ ddbAdmissions' = UpdateAdmissionTestDate(ddbAdmissions, a, test_date)
    /\ UNCHANGED <<pending, alerts, sweeps>>
    /\ UNCHANGED <<sqlVars, call>>

\* process_csv_file on a LIS record, first write: tests_table.put_item(test)
LisPutTest(a, test_date) ==
    /\ test_date <= now
    /\ Cardinality(DdbTestsOf(a)) < MaxTests
    /\ <<a, test_date>> \notin ddbTests
    /\ ddbTests' = ddbTests \cup {<<a, test_date>>}
    /\ pending' = pending \cup {<<a, test_date>>}
    /\ UNCHANGED <<ddbAdmissions, alerts, sweeps>>
    /\ UNCHANGED <<sqlVars, call>>

\* process_csv_file on a LIS record, second write:
\* update_admission_test_date(test.admission_id, test.test_date)
LisUpdateAdmission(a, test_date) ==
    /\ <<a, test_date>> \in pending
    /\ pending' = pending \ {<<a, test_date>>}
    /\ ddbAdmissions' = UpdateAdmissionTestDate(ddbAdmissions, a, test_date)
    /\ UNCHANGED <<ddbTests, alerts, sweeps>>
    /\ UNCHANGED <<sqlVars, call>>

\* load_sample_data of scripts/init_local_tables.py: an Active admission
\* whose last test was 49 hours ago
LoadSampleData(a) ==
    /\ ddbAdmissions' =
          PutItem(ddbAdmissions, ItemKey(PatientOf(a), a),
                  [patient_id |-> PatientOf(a), admission_id |-> a,
                   status |-> "Active",
                   last_test_date |-> now - SampleHours,
                   hours_since_test |-> SampleHours])
    /\ UNCHANGED <<ddbTests, pending, alerts, sweeps>>
    /\ UNCHANGED <<sqlVars, call>>

\* create_alert_message for an item of the query; the run number stands for
\* the message's timestamp
AlertMessage(item, run) ==
    [type |-> "alert", alertType |-> "noTest", timestamp |-> run,
     patientId |-> item.patient_id, admissionId |-> item.admission_id,
     lastTestDate |-> item.last_test_date,
     hoursSinceTest |-> item.hours_since_test]

\* monitor_patients.handle: one alert broadcast per admission the query returns
MonitorPatients ==
    /\ sweeps < MaxSweeps
    /\ sweeps' = sweeps + 1
    /\ LET patients == QueryMonitoringIndex(ddbAdmissions, AttentionHours) IN
         alerts' = alerts \cup
                   {AlertMessage(ddbAdmissions[k], sweeps + 1) : k \in patients}
    /\ UNCHANGED <<ddbAdmissions, ddbTests, pending>>
    /\ UNCHANGED <<sqlVars, call>>

\* test_date values of the LIS files
LisDates == {0, 36}

\* DynamoDBClient.put_item from its (retries + 1)-th attempt on, when the
\* next `throttles` attempts get ProvisionedThroughputExceededException and
\* the one after them succeeds ("ok") or gets another error
RECURSIVE PutItemAttempt(_, _, _, _, _, _)

\* put_item with retries > max_retries where the code has >=
PutItemAttemptOneMore(table, key, item, throttles, final, retries) ==
    IF throttles > 0
    THEN IF retries > MaxRetries
         THEN [table |-> table, attempts |-> retries + 1, raised |-> TRUE]
         ELSE PutItemAttempt(table, key, item, throttles - 1, final, retries + 1)
    ELSE IF final = "ok"
    THEN [table |-> PutItem(table, key, item),
          attempts |-> retries + 1, raised |-> FALSE]
    ELSE [table |-> table, attempts |-> retries + 1, raised |-> TRUE]

\* put_item without the retries >= max_retries test
PutItemAttemptUnbounded(table, key, item, throttles, final, retries) ==
    IF throttles > 0
    THEN PutItemAttempt(table, key, item, throttles - 1, final, retries + 1)
    ELSE [table |-> IF final = "ok" THEN PutItem(table, key, item) ELSE table,
          attempts |-> retries + 1, raised |-> final # "ok"]

PutItemAttempt(table, key, item, throttles, final, retries) ==
    IF throttles > 0
    THEN IF retries >= MaxRetries
         THEN [table |-> table, attempts |-> retries + 1, raised |-> TRUE]
         ELSE PutItemAttempt(table, key, item, throttles - 1, final, retries + 1)
    ELSE IF final = "ok"
    THEN [table |-> PutItem(table, key, item),
          attempts |-> retries + 1, raised |-> FALSE]
    ELSE [table |-> table, attempts |-> retries + 1, raised |-> TRUE]

\* the stats of process_csv_file for one record
RecordStats(kind, attempts, raised) ==
    [fn |-> "process_record", kind |-> kind, attempts |-> attempts,
     raised |-> raised,
     processed |-> IF raised THEN 0 ELSE 1,
     errors |-> IF raised THEN 1 ELSE 0]

\* process_csv_file on a PMS record when the store may refuse the write: the
\* exception put_item raises is caught per record and counted in errors
ProcessPmsRecordWith(p, a, status, throttles, final) ==
    /\ LET r == PutItemAttempt(ddbAdmissions, ItemKey(p, a),
                               PmsItem(p, a, status), throttles, final, 0) IN
         /\ ddbAdmissions' = r.table
         /\ call' = RecordStats("pms", r.attempts, r.raised)
    /\ UNCHANGED <<ddbTests, pending, alerts, sweeps>>
    /\ UNCHANGED sqlVars

\* process_csv_file on a LIS record when the store may refuse a write:
\* tests_table.put_item with its retries, then update_item, which has none
ProcessLisRecordWith(a, test_date, throttles, final, update) ==
    /\ test_date <= now
    /\ Cardinality(DdbTestsOf(a)) < MaxTests
    /\ LET r == PutItemAttempt(<< >>, <<a, test_date>>, TRUE,
                               throttles, final, 0) IN
         /\ ddbTests' = IF r.raised THEN ddbTests
                        ELSE ddbTests \cup {<<a, test_date>>}
         /\ ddbAdmissions' =
               IF r.raised \/ update # "ok" THEN ddbAdmissions
               ELSE UpdateAdmissionTestDate(ddbAdmissions, a, test_date)
         /\ call' = RecordStats("lis", r.attempts, r.raised \/ update # "ok")
    /\ UNCHANGED <<pending, alerts, sweeps>>
    /\ UNCHANGED sqlVars

\* LIS files processed by concurrent invocations of the handler: the two
\* writes of a record interleave with those of the others.
NextLis ==
    \/ Tick
    \/ \E a \in AdmissionIds, t \in LisDates : LisPutTest(a, t)
    \/ \E a \in AdmissionIds, t \in LisDates : LisUpdateAdmission(a, t)

SpecLis == Init /\ [][NextLis]_vars

\* The ingestion against a store that throttles and fails.
NextRetry ==
    \/ \E a \in AdmissionIds, s \in Statuses :
          \E n \in 0..MaxThrottles, f \in {"ok", "error"} :
             ProcessPmsRecordWith(PatientOf(a), a, s, n, f)
    \/ \E a \in AdmissionIds, t \in LisDates :
          \E n \in 0..MaxThrottles, f \in {"ok", "error"}, u \in {"ok", "error"} :
             ProcessLisRecordWith(a, t, n, f, u)

SpecRetry == Init /\ [][NextRetry]_vars

NextDdb ==
    \/ Tick
    \/ \E a \in AdmissionIds, s \in Statuses : ProcessPmsRecord(PatientOf(a), a, s)
    \/ \E a \in AdmissionIds, t \in LisDates : ProcessLisRecord(a, t)
    \/ LoadSampleData("A1")
    \/ MonitorPatients

SpecDdb == Init /\ [][NextDdb]_vars

\* One admission followed through both stores: the triggers reconcile its
\* queue entry, the sweep alerts.
NextSweep ==
    \/ Tick
    \/ \E s \in Statuses : InsertAdmission("A1", s)
    \/ \E s \in Statuses : UpdateAdmission("A1", s)
    \/ \E t \in LisDates : InsertLabTest("A1", t)
    \/ LoadSampleData("A1")
    \/ MonitorPatients

SpecSweep == Init /\ [][NextSweep]_vars

\* ------------------------------------------------ the pure functions

\* largest number of hours the predicates are evaluated at
MaxHours == 50

Hours == 0..MaxHours

\* needs_attention of an admission, by the generated column and by the model
CallNeedsAttention(status, last_test_date, t) ==
    /\ call.fn = "none"
    /\ last_test_date = NULL \/ last_test_date <= t
    /\ call' = [fn |-> "needs_attention", status |-> status,
                last_test_date |-> last_test_date, t |-> t,
                sql |-> NeedsAttentionSql(status, last_test_date, t),
                py |-> NeedsAttention(status, last_test_date, t)]
    /\ UNCHANGED <<sqlVars, ddbVars>>

\* priority of two monitoring_queue rows
CallPriority(h1, h2) ==
    /\ call.fn = "none"
    /\ call' = [fn |-> "priority", h1 |-> h1, h2 |-> h2,
                tier1 |-> Priority(h1), tier2 |-> Priority(h2)]
    /\ UNCHANGED <<sqlVars, ddbVars>>

NextPure ==
    \/ \E s \in Statuses, d \in Hours \cup {NULL}, t \in Hours :
          CallNeedsAttention(s, d, t)
    \/ \E h1 \in Hours \cup {NULL}, h2 \in Hours \cup {NULL} : CallPriority(h1, h2)

SpecPure == Init /\ [][NextPure]_vars

\* ------------------------------------------------ the broadcaster (utils)

ConnIds == 1..MaxConns

Range(f) == {f[i] : i \in DOMAIN f}

\* what the transport and the registry do for one connection: post_to_connection
\* succeeds, raises GoneException or raises another error; delete_item
\* succeeds or fails
Envs == {[post |-> "ok", del |-> "ok"], [post |-> "gone", del |-> "ok"],
         [post |-> "gone", del |-> "fail"], [post |-> "error", del |-> "ok"]}

\* the exclusion test of a broadcast that has none
ExcludedNever(exclude, id) == FALSE

\* if exclude_connections and connection_id in exclude_connections
Excluded(exclude, id) == exclude # {} /\ id \in exclude

\* send_message: True, False, or the exception remove_connection re-raises
\* from inside the GoneException handler, which no clause of the try catches
SendMessage(registry, id, e) ==
    IF e.post = "ok" THEN [result |-> "true", registry |-> registry]
    ELSE IF e.post = "gone"
    THEN IF e.del = "ok"
         THEN [result |-> "false", registry |-> registry \ {id}]
         ELSE [result |-> "raise", registry |-> registry]
    ELSE [result |-> "false", registry |-> registry]

\* the for loop of broadcast_message from the i-th scanned connection on; an
\* exception leaves the loop through the except clause, which re-raises
RECURSIVE BroadcastLoop(_, _, _, _, _)
BroadcastLoop(conns, i, exclude, env, st) ==
    IF i > Len(conns) THEN st
    ELSE LET id == conns[i] IN
         IF Excluded(exclude, id)
         THEN BroadcastLoop(conns, i + 1, exclude, env, st)
         ELSE LET r  == SendMessage(st.registry, id, env[id])
                  at == Append(st.attempts, id)
              IN  IF r.result = "raise"
                  THEN [st EXCEPT !.raised = TRUE, !.attempts = at]
                  ELSE BroadcastLoop(conns, i + 1, exclude, env,
                          [st EXCEPT !.attempts = at,
                                     !.registry = r.registry,
                                     !.sent = IF r.result = "true" THEN @ + 1 ELSE @,
                                     !.failed = IF r.result = "false" THEN @ + 1 ELSE @])

\* broadcast_message over the connections a scan returned, in scan order:
\* its stats, the send attempts it made, the registry it leaves, and whether
\* it raised instead of returning
BroadcastMessage(conns, exclude, env) ==
    BroadcastLoop(conns, 1, exclude, env,
                  [total |-> Len(conns), sent |-> 0, failed |-> 0,
                   excluded |-> Cardinality(exclude),
                   attempts |-> << >>, registry |-> Range(conns),
                   raised |-> FALSE])

\* one broadcast
CallBroadcast(conns, exclude, env) ==
    /\ call.fn = "none"
    /\ call' = [fn |-> "broadcast", conns |-> conns, exclude |-> exclude,
                env |-> env, out |-> BroadcastMessage(conns, exclude, env)]
    /\ UNCHANGED <<sqlVars, ddbVars>>

\* the results of a scan: the registered connections, each once, in any order
Scans ==
    {q \in UNION {[1..k -> ConnIds] : k \in 0..MaxConns} :
        \A i \in DOMAIN q, j \in DOMAIN q : q[i] = q[j] => i = j}

NextBroadcast ==
    /\ call.fn = "none"
    /\ \E conns \in Scans, exclude \in SUBSET ConnIds :
          \E env \in [Range(conns) -> Envs] : CallBroadcast(conns, exclude, env)

SpecBroadcast == Init /\ [][NextBroadcast]_vars
\* ------------------------------------------------ the configuration (utils)

\* largest threshold, in hours, a configuration file is given
MaxThreshold == 10

Thresholds == 0..MaxThreshold

\* MonitoringConfig: each threshold is an int with Field(ge=1); the model has
\* no validator that relates one field to another. The other sections of the
\* file are valid.
MonitoringConfig(test_alert_threshold, warning_threshold) ==
    IF test_alert_threshold >= 1 /\ warning_threshold >= 1
    THEN "ok" ELSE "error"

\* load_config: AppConfig(**full_config) is returned, or the validation
\* error is logged and re-raised
CallLoadConfig(test_alert_threshold, warning_threshold) ==
    /\ call' = [fn |-> "load_config",
                test_alert_threshold |-> test_alert_threshold,
                warning_threshold |-> warning_threshold,
                result |-> MonitoringConfig(test_alert_threshold,
                                            warning_threshold)]
    /\ UNCHANGED <<sqlVars, ddbVars>>

NextConfig ==
    /\ call.fn = "none"
    /\ \E c \in Thresholds, w \in Thresholds : CallLoadConfig(c, w)

SpecConfig == Init /\ [][NextConfig]_vars

\* ------------------------------------------------ the sweep's dispatch

\* connections registered when a sweep starts
MaxObservers == 2

ObserverIds == 1..MaxObservers

\* the registered connections, each once, in the order the scans return them
ObserverScans ==
    {q \in UNION {[1..k -> ObserverIds] : k \in 0..MaxObservers} :
        \A i \in DOMAIN q, j \in DOMAIN q : q[i] = q[j] => i = j}

\* get_connections without its try/except: a failed scan propagates
GetConnectionsRaising(registry, order, scan) ==
    IF scan = "ok"
    THEN [conns |-> SelectSeq(order, LAMBDA id : id \in registry),
          raised |-> FALSE]
    ELSE [conns |-> << >>, raised |-> TRUE]

\* WebSocketManager.get_connections: the connection ids of a scan, or the
\* empty list when the scan fails
GetConnections(registry, order, scan) ==
    IF scan = "ok"
    THEN [conns |-> SelectSeq(order, LAMBDA id : id \in registry),
          raised |-> FALSE]
    ELSE [conns |-> << >>, raised |-> FALSE]

\* the loop body with a delete_item whose failure is not caught
ManagerSendRaising(registry, id, e) ==
    IF e.post = "ok" THEN [result |-> "sent", registry |-> registry]
    ELSE IF e.post = "gone"
    THEN IF e.del = "ok"
         THEN [result |-> "gone", registry |-> registry \ {id}]
         ELSE [result |-> "raise", registry |-> registry]
    ELSE [result |-> "error", registry |-> registry]

\* WebSocketManager.broadcast_message, the body of its for loop: post, and on
\* an exception that names GoneException delete the connection; a failure of
\* the delete and any other exception are logged
ManagerSend(registry, id, e) ==
    IF e.post = "ok" THEN [result |-> "sent", registry |-> registry]
    ELSE IF e.post = "gone"
    THEN [result |-> "gone",
          registry |-> IF e.del = "ok" THEN registry \ {id} ELSE registry]
    ELSE [result |-> "error", registry |-> registry]

\* the for loop of WebSocketManager.broadcast_message from the i-th
\* connection on; an exception that escapes the body ends the loop
RECURSIVE ManagerLoop(_, _, _, _)
ManagerLoop(conns, i, env, st) ==
    IF i > Len(conns) THEN st
    ELSE LET id == conns[i]
             r  == ManagerSend(st.registry, id, env[id])
             at == Append(st.attempts, id)
         IN  IF r.result = "raise"
             THEN [st EXCEPT !.raised = TRUE, !.attempts = at]
             ELSE ManagerLoop(conns, i + 1, env,
                     [st EXCEPT !.attempts = at,
                                !.registry = r.registry,
                                !.sent = IF r.result = "sent"
                                         THEN @ \cup {id} ELSE @])

\* WebSocketManager.broadcast_message: the connections it tried, those that
\* got the message, and the registry it leaves
ManagerBroadcast(registry, order, env, scan) ==
    LET c == GetConnections(registry, order, scan) IN
      IF c.raised
      THEN [registry |-> registry, attempts |-> << >>, sent |-> {},
            raised |-> TRUE]
      ELSE ManagerLoop(c.conns, 1, env,
                       [registry |-> registry, attempts |-> << >>,
                        sent |-> {}, raised |-> FALSE])

\* the for loop of handle from the i-th patient on: one broadcast each
RECURSIVE HandleLoop(_, _, _, _, _, _)
HandleLoop(patients, i, order, env, scans, st) ==
    IF i > Len(patients) THEN st
    ELSE LET b   == ManagerBroadcast(st.registry, order, env, scans[i])
             rec == [key |-> patients[i], scan |-> scans[i],
                     before |-> st.registry, attempts |-> b.attempts,
                     sent |-> b.sent, after |-> b.registry]
         IN  IF b.raised
             THEN [st EXCEPT !.raised = TRUE,
                             !.broadcasts = Append(@, rec)]
             ELSE HandleLoop(patients, i + 1, order, env, scans,
                             [st EXCEPT !.registry = b.registry,
                                        !.broadcasts = Append(@, rec)])

\* a response that counts the patients whose alert reached a connection
ResponseOfDelivered(query, patients, st) ==
    IF query = "raise" \/ st.raised
    THEN [statusCode |-> 500, message |-> "error", patientsAlerted |-> NULL]
    ELSE IF patients = << >>
    THEN [statusCode |-> 200, message |-> "No patients need attention",
          patientsAlerted |-> NULL]
    ELSE [statusCode |-> 200, message |-> "Monitoring complete",
          patientsAlerted |->
             Cardinality({j \in DOMAIN st.broadcasts :
                             st.broadcasts[j].sent # {}})]

\* the response of handle
ResponseOf(query, patients, st) ==
    IF query = "raise" \/ st.raised
    THEN [statusCode |-> 500, message |-> "error", patientsAlerted |-> NULL]
    ELSE IF patients = << >>
    THEN [statusCode |-> 200, message |-> "No patients need attention",
          patientsAlerted |-> NULL]
    ELSE [statusCode |-> 200, message |-> "Monitoring complete",
          patientsAlerted |-> Len(patients)]

\* monitor_patients.handle with a query, a registry and a transport that may
\* fail: the query raises or returns `patients`; `order` lists the registered
\* connections, `env` says what the transport and the registry do for each,
\* and the scan of the i-th broadcast succeeds or fails as scans[i]
MonitorPatientsWith(query, patients, order, env, scans) ==
    /\ sweeps < MaxSweeps
    /\ sweeps' = sweeps + 1
    /\ Range(patients) = QueryMonitoringIndex(ddbAdmissions, AttentionHours)
    /\ \A i \in DOMAIN patients, j \in DOMAIN patients :
          patients[i] = patients[j] => i = j
    /\ LET returned == IF query = "ok" THEN patients ELSE << >>
           st == HandleLoop(returned, 1, order, env, scans,
                            [registry |-> Range(order), broadcasts |-> << >>,
                             raised |-> FALSE])
       IN  /\ alerts' = alerts \cup
                 {AlertMessage(ddbAdmissions[st.broadcasts[j].key], sweeps + 1) :
                     j \in DOMAIN st.broadcasts}
           /\ call' = [fn |-> "monitor", query |-> query,
                       patients |-> returned, order |-> order, env |-> env,
                       broadcasts |-> st.broadcasts, registry |-> st.registry,
                       response |-> ResponseOf(query, returned, st)]
    /\ UNCHANGED <<ddbAdmissions, ddbTests, pending>>
    /\ UNCHANGED sqlVars

\* the orders in which a query may return the items of a set of keys
OrdersOf(S) ==
    {q \in [1..Cardinality(S) -> S] :
        \A i \in DOMAIN q, j \in DOMAIN q : q[i] = q[j] => i = j}

\* A sweep over the sample ward with observers that come and go, between
\* ingestions that discharge and test the admissions; the sweep that is
\* followed is the first one.
NextDispatch ==
    \/ \E a \in AdmissionIds : LoadSampleData(a)
    \/ \E a \in AdmissionIds : ProcessPmsRecord(PatientOf(a), a, "Discharged")
    \/ \E a \in AdmissionIds : ProcessLisRecord(a, 0)
    \/ /\ call.fn = "none"
       /\ \E query \in {"ok", "raise"} :
          \E patients \in OrdersOf(QueryMonitoringIndex(ddbAdmissions, AttentionHours)) :
          \E order \in ObserverScans :
          \E env \in [Range(order) -> Envs] :
          \E scans \in [1..Len(patients) -> {"ok", "fail"}] :
             MonitorPatientsWith(query, patients, order, env, scans)

SpecDispatch == Init /\ [][NextDispatch]_vars

\* ------------------------------------------------ the query API (get_patients)

\* admissions in the MonitoringIndex when a request arrives
MaxResults == 3

\* DEFAULT_MONITORING_HOURS
DefaultMonitoringHours == 48

\* float('inf')
Infinity == 1000000

\* the 'hours' query parameter: absent, a string int() accepts, or one it
\* does not
HoursParams ==
    {[kind |-> "missing"], [kind |-> "invalid"]} \cup
    {[kind |-> "int", value |-> h] : h \in {0, AttentionHours}}

\* int(value): the number a decimal string denotes, or ValueError
ParseInt(param) ==
    IF param.kind = "int" THEN [raised |-> FALSE, value |-> param.value]
    ELSE [raised |-> TRUE, value |-> NULL]

\* parse_query_params for the key 'hours' with an int default: a missing
\* parameter takes the default, and so does one int() rejects
ParseQueryParams(param, default_value) ==
    IF param.kind = "missing" THEN default_value
    ELSE LET r == ParseInt(param) IN
         IF r.raised THEN default_value ELSE r.value

\* the Active admissions of the index, each once, in the order a query
\* returns them, with their hoursSinceTest
IndexIds == {WardIds[i] : i \in 1..MaxResults}

IndexHours == {NULL, 0, AttentionHours, AttentionHours + 2}

IndexRows ==
    {q \in UNION {[1..k -> [admissionId : IndexIds, hoursSinceTest : IndexHours]] :
                     k \in 0..MaxResults} :
        \A i \in DOMAIN q, j \in DOMAIN q :
           q[i].admissionId = q[j].admissionId => i = j}

\* the key condition '#status = :status AND hoursSinceTest >= :hours' on the
\* Active rows of the index
QueryByHours(rows, hours) ==
    SelectSeq(rows, LAMBDA r : r.hoursSinceTest # NULL /\ r.hoursSinceTest >= hours)

\* key=lambda x: x['hoursSinceTest'] or float('inf')
SortKey(x) ==
    IF x.hoursSinceTest = NULL \/ x.hoursSinceTest = 0
    THEN Infinity ELSE x.hoursSinceTest

\* list.sort(key=..., reverse=True): descending by key, elements with equal
\* keys left in the order they had
RECURSIVE SortReverse(_)
SortReverse(s) ==
    IF s = << >> THEN << >>
    ELSE LET rest == SortReverse(SubSeq(s, 1, Len(s) - 1))
             x    == s[Len(s)]
             n    == Cardinality({i \in DOMAIN rest : SortKey(rest[i]) >= SortKey(x)})
         IN  SubSeq(rest, 1, n) \o <<x>> \o SubSeq(rest, n + 1, Len(rest))

\* get_patients_without_tests with no ward filter and a patient record for
\* every admission
GetPatientsWithoutTests(rows, hours) == SortReverse(QueryByHours(rows, hours))

\* get_patients.handle
CallGetPatients(method, param, rows, query) ==
    /\ call' =
         IF method = "OPTIONS"
         THEN [fn |-> "get_patients", method |-> method, param |-> param,
               rows |-> << >>, queried |-> FALSE, hours |-> NULL,
               statusCode |-> 200, error |-> FALSE, patients |-> << >>]
         ELSE LET hours == ParseQueryParams(param, DefaultMonitoringHours) IN
              IF query = "raise"
              THEN [fn |-> "get_patients", method |-> method, param |-> param,
                    rows |-> rows, queried |-> TRUE, hours |-> hours,
                    statusCode |-> 500, error |-> TRUE, patients |-> << >>]
              ELSE [fn |-> "get_patients", method |-> method, param |-> param,
                    rows |-> rows, queried |-> TRUE, hours |-> hours,
                    statusCode |-> 200, error |-> FALSE,
                    patients |-> GetPatientsWithoutTests(rows, hours)]
    /\ UNCHANGED <<sqlVars, ddbVars>>

NextQuery ==
    /\ call.fn = "none"
    /\ \/ \E param \in HoursParams : CallGetPatients("OPTIONS", param, << >>, "ok")
       \/ \E param \in HoursParams, rows \in IndexRows, query \in {"ok", "raise"} :
             CallGetPatients("GET", param, rows, query)

SpecQuery == Init /\ [][NextQuery]_vars

\* ------------------------------------------------ put_item by itself

\* what the store answers to the successive put_item requests of one call
Outcomes == [1..(MaxThrottles + 1) -> {"ok", "throttled", "error"}]

\* the throttled answers before the first answer of another kind
RECURSIVE LeadingThrottles(_, _)
LeadingThrottles(o, i) ==
    IF i > Len(o) \/ o[i] # "throttled" THEN 0
    ELSE 1 + LeadingThrottles(o, i + 1)

\* DynamoDBClient.put_item of one item into an empty table against a store
\* that answers as `outcomes`: the attempts it made, whether it raised, and
\* whether the item is stored
CallPutItem(outcomes) ==
    /\ LET n == LeadingThrottles(outcomes, 1)
           final == IF n < Len(outcomes) /\ outcomes[n + 1] = "error"
                    THEN "error" ELSE "ok"
           r == PutItemAttempt(<< >>, "key", "item", n, final, 0)
       IN  call' = [fn |-> "put_item", outcomes |-> outcomes,
                    attempts |-> r.attempts, raised |-> r.raised,
                    stored |-> "key" \in DOMAIN r.table]
    /\ UNCHANGED <<sqlVars, ddbVars>>

NextPut ==
    /\ call.fn = "none"
    /\ \E outcomes \in Outcomes : CallPutItem(outcomes)

SpecPut == Init /\ [][NextPut]_vars

\* ================================================================ properties

MaxOf(S) == CHOOSE x \in S : \A y \in S : y <= x

EntryOf(q, a) == RowsOf(q, PatientOf(a), a)

\* C1: after each test insertion the admission's last test time is the
\* maximum test time among the tests inserted so far for that admission, so
\* an earlier test never lowers it (here on the S3/LIS path, for the item
\* update_admission_test_date addresses).
C1_LastTestIsMaxSeen ==
    [][\A a \in AdmissionIds :
          {x \in ddbTests' : x[1] = a} # {x \in ddbTests : x[1] = a}
          => ddbAdmissions'[TestDateKey(a)].last_test_date
               = MaxOf({x[2] : x \in {y \in ddbTests' : y[1] = a}})]_vars

\* The same statement for the SQL trigger update_admission_last_test.
SqlLastTestIsMaxSeen ==
    \A a \in DOMAIN admissions :
        admissions[a].last_test_date =
            IF TestsOf(a) = {} THEN NULL ELSE MaxOf({x[2] : x \in TestsOf(a)})

\* C2: with no admission-updating event pending, an admission has a
\* monitoring entry if and only if its needsAttention predicate (the
\* expression of admissions.needs_attention), evaluated at the current time,
\* is true.
C2_MembershipMatchesPredicate ==
    \A a \in DOMAIN admissions :
        (EntryOf(queue, a) # {})
        <=> NeedsAttentionSql(admissions[a].status, admissions[a].last_test_date, now)

\* C3: the monitoring index never holds two entries with the same
\* (patientId, admissionId), and an upsert on an existing key replaces the
\* entry in place: the one entry carries the hours of the latest upsert.
C3_AtMostOneEntryPerKey ==
    /\ \A r1 \in queue, r2 \in queue : KeyOf(r1) = KeyOf(r2) => r1 = r2
    /\ \A r \in queue :
          /\ r.admission_id \in DOMAIN admissions
          /\ r.hours_since_test = admissions[r.admission_id].hours_since_test

\* an entry inserted at hour 0 (when it could only hold NULL hours) that now
\* holds a number of hours: an upsert has replaced it in place
C3_Witness ==
    \E r \in queue : r.last_checked = 0 /\ r.hours_since_test # NULL

\* C4: two batch claims in flight at the same time hold disjoint sets of
\* entries.
C4_NoDoubleClaim ==
    \A c1 \in Claimers, c2 \in Claimers :
        c1 # c2 => claim[c1].batch \cap claim[c2].batch = {}

\* two claims in flight, each holding an entry
C4_Witness ==
    \A c \in Claimers : claim[c].phase # "idle" /\ claim[c].batch # {}

C6_NoDischargedEntry ==
    \A a \in DOMAIN admissions :
        admissions[a].status = "Discharged" => EntryOf(queue, a) = {}

\* a discharged admission whose last test is older than the threshold
C6_Witness ==
    \E a \in DOMAIN admissions :
        /\ admissions[a].status = "Discharged"
        /\ admissions[a].hours_since_test # NULL
        /\ admissions[a].hours_since_test > AttentionHours

\* C7: needsAttention is false when the status is not Active, true when it
\* is Active with no last test, and otherwise hoursSinceTest >= 48; the SQL
\* generated column and Admission.needs_attention both compute this.
C7_PredicateAgrees ==
    call.fn = "needs_attention" =>
        LET expected ==
              /\ call.status = "Active"
              /\ \/ call.last_test_date = NULL
                 \/ call.t - call.last_test_date >= 48
        IN  call.sql = expected /\ call.py = expected

\* C8: tier 1 from 48 hours, tier 2 from 36 up to 48, tier 3 below 36, and
\* the tier does not increase as the hours grow.
C8_ClassifyTiers ==
    (call.fn = "priority" /\ call.h1 # NULL /\ call.h2 # NULL) =>
        /\ call.tier1 = (IF call.h1 >= 48 THEN 1 ELSE IF call.h1 >= 36 THEN 2 ELSE 3)
        /\ call.h1 <= call.h2 => call.tier2 <= call.tier1

\* the two sides of the critical boundary
C8_Witness ==
    /\ call.fn = "priority"
    /\ call.h1 = 47 /\ call.tier1 = 2
    /\ call.h2 = 48 /\ call.tier2 = 1

\* C9: an Active admission with no test recorded has an entry of tier 1.
C9_NoTestIsTierOne ==
    \A a \in DOMAIN admissions :
        (admissions[a].status = "Active" /\ admissions[a].last_test_date = NULL)
        => \E r \in EntryOf(queue, a) : r.priority = 1

\* the admissions an INSERT or UPDATE writes in this step
Written(a) ==
    /\ a \in DOMAIN admissions'
    /\ a \notin DOMAIN admissions \/ admissions'[a] # admissions[a]

\* the index action of a reconcile, by (needsAttention, prior entry)
IndexAction(a) ==
    LET new   == admissions'[a]
        prior == EntryOf(queue, a)
        post  == EntryOf(queue', a)
    IN  /\ ~new.needs_attention => post = {}
        /\ (new.needs_attention /\ prior = {}) =>
              \E r \in post :
                 post = {r} /\ r.hours_since_test = new.hours_since_test
        /\ (new.needs_attention /\ prior # {}) =>
              \E r \in post :
                 /\ post = {r}
                 /\ r.hours_since_test = new.hours_since_test
                 /\ \A o \in prior : r.last_checked = o.last_checked
        /\ queue' \ post = queue \ prior

\* the number of events a reconcile emits according to the claim
ClaimedEvents(a) ==
    LET new   == admissions'[a]
        prior == EntryOf(queue, a)
    IN  IF ~new.needs_attention
        THEN IF prior = {} THEN 0 ELSE 1
        ELSE IF prior = {} THEN 1
        ELSE IF \A o \in prior : o.priority = Priority(new.hours_since_test)
             THEN 0 ELSE 1

C11_NewTestResolves ==
    [][\A a \in AdmissionIds :
          LET k == ItemKey(PatientOf(a), a) IN
          (/\ <<a, now>> \in ddbTests' \ ddbTests
           /\ k \in QueryMonitoringIndex(ddbAdmissions, AttentionHours))
          => /\ ddbAdmissions'[k].last_test_date = now
             /\ k \notin QueryMonitoringIndex(ddbAdmissions', AttentionHours)
             /\ Cardinality(alerts' \ alerts) = 1]_vars

\* The index part of the same statement for the SQL triggers: the new test
\* advances last_test_date, clears needs_attention and removes the entry.
SqlNewTestResolves ==
    [][\A a \in DOMAIN admissions :
          (/\ <<a, now>> \in lab_tests' \ lab_tests
           /\ admissions[a].status = "Active"
           /\ \E r \in EntryOf(queue, a) : r.priority = 1)
          => /\ admissions'[a].last_test_date = now
             /\ ~admissions'[a].needs_attention
             /\ EntryOf(queue', a) = {}]_vars

\* C12: an Active admission whose last test was 40 hours ago holds a tier-2
\* entry; reconciled 9 hours later with no new test, its entry becomes tier 1
\* and exactly one TierChanged(2,1) event is emitted.
C12_TierTwoEscalates ==
    [][\A a \in DOMAIN admissions :
          (/\ admissions[a].status = "Active"
           /\ admissions[a].hours_since_test = 40
           /\ Written(a)
           /\ admissions'[a].status = "Active"
           /\ admissions'[a].last_test_date = admissions[a].last_test_date
           /\ admissions'[a].hours_since_test = 49)
          => /\ \E r \in EntryOf(queue, a) : r.priority = 2
             /\ \E r \in EntryOf(queue', a) : r.priority = 1
             /\ Cardinality(alerts' \ alerts) = 1]_vars

\* the tier-1 entries no transaction in flight holds
Unclaimed == {r \in queue : r.priority = 1 /\ KeyOf(r) \notin Locked}

\* what a call returns for the rows rs
Projected(rs) ==
    {[patient_id |-> r.patient_id, hours_since_test |-> r.hours_since_test] :
        r \in rs}

\* C13: claimBatch(maxSize) takes at most maxSize entries, all of tier 1, the
\* top of the unclaimed tier-1 entries by hours descending, and all of them
\* when there are fewer than maxSize; it returns the entries it took.
C13_ClaimTopOfTierOne ==
    [][\A c \in Claimers :
          /\ (claim[c].phase = "idle" /\ claim'[c].phase = "selected") =>
                LET B == {r \in queue : KeyOf(r) \in claim'[c].batch} IN
                /\ Cardinality(claim'[c].batch) <= claim'[c].size
                /\ Cardinality(B) = Cardinality(claim'[c].batch)
                /\ B \subseteq Unclaimed
                /\ \A r \in B, o \in Unclaimed \ B :
                      o.hours_since_test <= r.hours_since_test
                /\ Cardinality(Unclaimed) <= claim'[c].size => B = Unclaimed
          /\ (claim[c].phase = "selected" /\ claim'[c].phase = "marked") =>
                /\ claim'[c].returned =
                      Projected({r \in queue : KeyOf(r) \in claim[c].batch})
                /\ Cardinality(claim'[c].returned) <= claim[c].size]_vars

\* a call of size 2 that has taken two entries and left three unclaimed
\* tier-1 entries behind
C13_Witness ==
    \E c \in Claimers :
        /\ claim[c].phase = "selected"
        /\ claim[c].size = 2
        /\ Cardinality(claim[c].batch) = 2
        /\ Cardinality(Unclaimed) = 3

\* C14: claimBatch never removes an entry and never changes an entry's key,
\* hours or tier; it sets last_checked to the current time on exactly the
\* entries it returns, which no other statement can touch between their
\* selection and their marking; all other entries are unchanged.
C14_PeekAndMark ==
    [][/\ \A r \in queue :
            \/ r \in queue'
            \/ \E c \in Claimers :
                  /\ KeyOf(r) \in claim[c].batch
                  /\ claim[c].phase = "selected" /\ claim'[c].phase = "marked"
                  /\ [r EXCEPT !.last_checked = now] \in queue'
                  /\ Projected({r}) \subseteq claim'[c].returned
            \/ \E c \in Claimers :
                  /\ KeyOf(r) \in claim[c].batch
                  /\ claim'[c].crashed /\ ~claim[c].crashed
                  /\ \E u \in queue' : u = [r EXCEPT !.last_checked = u.last_checked]
            \/ claim' = claim /\ KeyOf(r) \notin Locked
       /\ claim' # claim => Cardinality(queue') = Cardinality(queue)
       /\ \A c \in Claimers :
             (claim[c].phase = "selected" /\ claim'[c].phase = "marked") =>
                Cardinality(queue' \ queue) <= Cardinality(claim[c].batch)]_vars

\* a call that has marked its entry at hour 36 beside a tier-1 entry it left
\* with the last_checked of its insertion
C14_Witness ==
    \E c \in Claimers :
        /\ claim[c].phase = "marked"
        /\ now > 0
        /\ \E r \in queue : KeyOf(r) \in claim[c].batch /\ r.last_checked = now
        /\ \E r \in queue : r.priority = 1 /\ r.last_checked = 0

\* C15: with 5 tier-1 entries in the index, after a claimBatch(2) that has
\* returned and marked the 2 most overdue entries and completed, a second
\* claimBatch(2) at the same instant returns 2 entries, none of which the
\* first call returned.
C15_SecondBatchIsNext ==
    [][\A c \in Claimers, d \in Claimers :
          (/\ c # d
           /\ Cardinality({r \in queue : r.priority = 1}) = 5
           /\ claim[d].phase = "idle" /\ ~claim[d].crashed
           /\ Cardinality(claim[d].returned) = 2
           /\ \A x \in claim[d].returned :
                 /\ \E r \in queue :
                       /\ r.priority = 1 /\ r.last_checked = now
                       /\ Projected({r}) = {x}
                 /\ \A o \in queue :
                       Projected({o}) \cap claim[d].returned = {}
                       => o.hours_since_test <= x.hours_since_test
           /\ claim[c].phase = "selected" /\ claim[c].size = 2
           /\ claim'[c].phase = "marked")
          => /\ Cardinality(claim'[c].returned) = 2
             /\ claim'[c].returned \cap claim[d].returned = {}]_vars

\* the entry r is claimable: a call whose batch size reaches its rank among
\* the rows the query may take gets it returned
ClaimableEntry(r) ==
    LET rows == Claimable(queue, Locked) IN
    \E S \in TopByHours(rows, Cardinality(rows)) : r \in S

\* C16: a sweep that dies after claiming holds no entry: whatever was marked,
\* every admission that needs attention with a test on record keeps its
\* tier-1 entry, and that entry is either held by a transaction in flight or
\* returned by a claimBatch of some size.
C16_NoPoisonEntry ==
    /\ \A c \in Claimers : claim[c].crashed => claim[c].batch = {}
    /\ \A a \in DOMAIN admissions :
          (admissions[a].needs_attention /\ admissions[a].hours_since_test # NULL)
          => \E r \in EntryOf(queue, a) :
                /\ r.priority = 1
                /\ LockedKey(a) \/ ClaimableEntry(r)

\* a sweep has died holding the entry of patient P1 as it stood at 49 hours;
\* the admission has been reconciled since, and another sweep's call has
\* returned its entry again
C16_Witness ==
    \E c \in Claimers, d \in Claimers :
        /\ c # d
        /\ claim[c].crashed
        /\ [patient_id |-> "P1", hours_since_test |-> SampleHours]
              \in claim[c].returned
        /\ claim[d].phase = "marked" /\ ~claim[d].crashed
        /\ \E x \in claim[d].returned :
              x.patient_id = "P1" /\ x.hours_since_test > SampleHours

\* the scanned connections of the last broadcast that are not excluded
Addressed == {id \in Range(call.conns) : id \notin call.exclude}

\* the number of send attempts the last broadcast made to id
Attempts(id) ==
    Cardinality({i \in DOMAIN call.out.attempts : call.out.attempts[i] = id})

\* C17: a delivery failure to one observer of any kind (connection gone,
\* transport error, failure while removing the gone connection) is counted
\* in failed, does not stop the attempts to the remaining observers and is
\* never raised to the caller of the broadcast.
C17_FailuresAreCounted ==
    call.fn = "broadcast" =>
        /\ ~call.out.raised
        /\ call.out.failed =
              Cardinality({id \in Addressed : call.env[id].post # "ok"})
        /\ \A id \in Addressed : Attempts(id) = 1

\* C18: in the stats a broadcast returns, total is the number of registered
\* connections of the scan, excluded ones included, and sent + failed is
\* total minus the registered connections that were excluded; no message is
\* sent to an excluded connection and every other connection gets exactly
\* one send attempt.
C18_BroadcastStats ==
    call.fn = "broadcast" =>
        /\ \A id \in call.exclude : Attempts(id) = 0
        /\ \A id \in ConnIds : Attempts(id) <= 1
        /\ ~call.out.raised =>
              /\ call.out.total = Cardinality(Range(call.conns))
              /\ \A id \in Addressed : Attempts(id) = 1
              /\ call.out.sent + call.out.failed =
                    call.out.total
                    - Cardinality(Range(call.conns) \cap call.exclude)

\* a broadcast over three connections that returned: one excluded, one
\* delivered, one gone
C18_Witness ==
    /\ call.fn = "broadcast"
    /\ ~call.out.raised
    /\ call.out.total = 3
    /\ Cardinality(Range(call.conns) \cap call.exclude) = 1
    /\ call.out.sent = 1
    /\ call.out.failed = 1

\* C19: a failed write to the store is retried at most max_retries times;
\* when the record's processing fails, the failure reaches the caller (it is
\* counted in errors, not in processed) and the admissions table is exactly
\* what it was before.
C19_BoundedRetryNoPartialWrite ==
    [][call'.fn = "process_record" =>
          /\ call'.attempts <= MaxRetries + 1
          /\ call'.raised =>
                /\ ddbAdmissions' = ddbAdmissions
                /\ call'.errors = 1 /\ call'.processed = 0
          /\ ~call'.raised => call'.errors = 0 /\ call'.processed = 1]_vars

\* a PMS record for an admission on file has failed after the last retry
C19_Witness ==
    /\ call.fn = "process_record"
    /\ call.kind = "pms"
    /\ call.raised
    /\ call.attempts = MaxRetries + 1
    /\ ddbAdmissions # << >>

\* the test dates on record for admission a
DdbTestDates(a) == {x[2] : x \in DdbTestsOf(a)}

\* C20: once the interleaved test-recording updates of an admission have all
\* completed, its last test time is the one some serial order of them leaves
\* and no write is lost: it is the latest test time on record, the later
\* test's effect never being overwritten by the earlier one.
C20_LaterTestNeverOverwritten ==
    pending = {} =>
        \A a \in AdmissionIds :
            DdbTestsOf(a) # {} =>
                /\ TestDateKey(a) \in DOMAIN ddbAdmissions
                /\ ddbAdmissions[TestDateKey(a)].last_test_date \in DdbTestDates(a)
                /\ ddbAdmissions[TestDateKey(a)].last_test_date
                      = MaxOf(DdbTestDates(a))

\* The part of the same statement that holds: the updates of one admission
\* leave what some serial order of them leaves, and touch no other item.
LisUpdatesAreSerial ==
    [][/\ pending = {} =>
             \A a \in AdmissionIds :
                 DdbTestsOf(a) # {} =>
                    ddbAdmissions[TestDateKey(a)].last_test_date \in DdbTestDates(a)
       /\ \A a \in AdmissionIds, t \in LisDates :
             (<<a, t>> \in pending /\ <<a, t>> \notin pending') =>
                \A k \in DOMAIN ddbAdmissions :
                    k # TestDateKey(a) => ddbAdmissions'[k] = ddbAdmissions[k]]_vars

\* C23: a configuration whose warning threshold is greater than or equal to
\* its attention threshold is rejected when it is loaded.
C23_WarningBelowCriticalEnforced ==
    (call.fn = "load_config" /\
     call.warning_threshold >= call.test_alert_threshold)
        => call.result = "error"

\* the sweep that call records reached no observer
DispatchFailed ==
    /\ call.fn = "monitor"
    /\ call.patients # << >>
    /\ \A j \in DOMAIN call.broadcasts : call.broadcasts[j].sent = {}

\* C22: a dispatch failure (no observer registered, the registry scan
\* failing, every delivery failing) leaves the admissions, the tests and the
\* monitoring index as the ingestion wrote them, every admission the query
\* returned still gets its broadcast in the same sweep, and the next
\* ingestion can run.
C22_DispatchFireAndForget ==
    /\ [][sweeps' = sweeps + 1 =>
            /\ ddbAdmissions' = ddbAdmissions
            /\ ddbTests' = ddbTests
            /\ pending' = pending
            /\ sqlVars' = sqlVars
            /\ call'.query = "ok" =>
                  /\ call'.response.statusCode = 200
                  /\ Len(call'.broadcasts) = Len(call'.patients)
                  /\ \A j \in DOMAIN call'.patients :
                        /\ call'.broadcasts[j].key = call'.patients[j]
                        /\ AlertMessage(ddbAdmissions[call'.patients[j]], sweeps')
                              \in alerts']_vars
    /\ [](DispatchFailed =>
            \A a \in AdmissionIds :
               ENABLED ProcessPmsRecord(PatientOf(a), a, "Discharged"))

\* the scan of the first broadcast failed, every delivery of the second
\* failed, both admissions were alerted, and one was discharged afterwards
C22_Witness ==
    /\ DispatchFailed
    /\ Len(call.patients) = 2
    /\ call.broadcasts[1].scan = "fail"
    /\ call.broadcasts[2].scan = "ok"
    /\ call.broadcasts[2].attempts # << >>
    /\ Cardinality(alerts) = 2
    /\ \E j \in DOMAIN call.patients :
          ddbAdmissions[call.patients[j]].status = "Discharged"

\* the connections a broadcast found gone and deleted from the registry
Removed(b, env) ==
    {id \in Range(b.attempts) : env[id].post = "gone" /\ env[id].del = "ok"}

\* C27: in a sweep, a connection whose send fails with GoneException is
\* deleted from the registry and is not a target of any later broadcast; a
\* send that fails otherwise, or a delete that fails, leaves the registry as
\* it was, and the broadcast goes on to every remaining connection.
C27_GoneConnectionsLeaveRegistry ==
    call.fn = "monitor" =>
       \A j \in DOMAIN call.broadcasts :
          LET b == call.broadcasts[j] IN
            /\ b.after = b.before \ Removed(b, call.env)
            /\ b.scan = "ok" =>
                  /\ Range(b.attempts) = b.before
                  /\ Len(b.attempts) = Cardinality(b.before)
            /\ \A k \in DOMAIN call.broadcasts :
                  k > j => Range(call.broadcasts[k].attempts)
                              \cap Removed(b, call.env) = {}

\* a first broadcast meets a gone connection whose delete fails, goes on to
\* a gone connection that it deletes, and the second broadcast targets only
\* the one still registered
C27_Witness ==
    /\ call.fn = "monitor"
    /\ Len(call.broadcasts) = 2
    /\ Len(call.broadcasts[1].attempts) = 2
    /\ LET first  == call.broadcasts[1].attempts[1]
           second == call.broadcasts[1].attempts[2]
       IN  /\ call.env[first] = [post |-> "gone", del |-> "fail"]
           /\ call.env[second] = [post |-> "gone", del |-> "ok"]
           /\ call.broadcasts[1].after = {first}
           /\ call.broadcasts[2].attempts = <<first>>

SendMessageRegistry ==
    call.fn = "broadcast" =>
       call.out.registry =
          Range(call.conns) \
             {id \in Range(call.out.attempts) :
                 call.env[id].post = "gone" /\ call.env[id].del = "ok"}

\* C25: a request whose 'hours' parameter is not an integer is answered with
\* status 400 and an error body, and no monitoring query is run with a
\* substituted value.
C25_InvalidHoursRejected ==
    (call.fn = "get_patients" /\ call.method = "GET" /\
     call.param.kind = "invalid")
        => /\ call.statusCode = 400
           /\ call.error
           /\ ~call.queried

\* position of an admission id in the lexicographic order of the ids
IdRank(a) ==
    CHOOSE n \in 1..5 : <<"A1", "A3", "A4", "A5", "P2#A2">>[n] = a

\* x is to be listed before y: longer overdue, no recorded hours counting
\* as longest, then the smaller admission id
ListedBefore(x, y) ==
    LET hx == IF x.hoursSinceTest = NULL THEN Infinity ELSE x.hoursSinceTest
        hy == IF y.hoursSinceTest = NULL THEN Infinity ELSE y.hoursSinceTest
    IN  hx > hy \/ (hx = hy /\ IdRank(x.admissionId) < IdRank(y.admissionId))

\* C26: the monitoring query returns its entries longest-overdue first, ties
\* broken by admission id, so an entry with hoursSinceTest 0 comes after
\* every entry with positive hours.
C26_LongestOverdueFirst ==
    (call.fn = "get_patients" /\ call.statusCode = 200)
        => \A i \in DOMAIN call.patients, j \in DOMAIN call.patients :
              i < j => ListedBefore(call.patients[i], call.patients[j])

\* What the sort does give (holds under SpecQuery): the entries with
\* hoursSinceTest 0 first, then the others by descending hours, entries of
\* equal hours in the order the query returned them.
SortedByKeyStable ==
    (call.fn = "get_patients" /\ call.statusCode = 200 /\ call.method = "GET")
        => LET q == QueryByHours(call.rows, call.hours)
               Pos(s, x) == CHOOSE i \in DOMAIN s : s[i] = x
           IN  /\ Range(call.patients) = Range(q)
               /\ Len(call.patients) = Len(q)
               /\ \A i \in DOMAIN call.patients, j \in DOMAIN call.patients :
                     i < j =>
                        \/ SortKey(call.patients[i]) > SortKey(call.patients[j])
                        \/ /\ SortKey(call.patients[i]) = SortKey(call.patients[j])
                           /\ Pos(q, call.patients[i]) < Pos(q, call.patients[j])

\* the rows of the queue under key k
RowsWithKey(q, k) == {r \in q : KeyOf(r) = k}

\* C24: an upsert or remove of a key is atomic with respect to a claim's
\* select-and-mark: every entry a claim selects and returns is a whole row of
\* the index (its tier the one of its hours), no upsert or remove changes a
\* row between its selection and its marking, and the claim returns exactly
\* the rows it selected, none of them deleted meanwhile.
C24_ClaimSeesWholeWrites ==
    [][\A c \in Claimers :
          /\ (claim[c].phase = "idle" /\ claim'[c].phase = "selected") =>
                \A k \in claim'[c].batch :
                   \E r \in queue :
                      /\ RowsWithKey(queue, k) = {r}
                      /\ r.priority = Priority(r.hours_since_test)
          /\ (claim[c].phase = "selected" /\ claim'[c].phase = "selected") =>
                \A k \in claim[c].batch :
                   /\ RowsWithKey(queue, k) # {}
                   /\ RowsWithKey(queue', k) = RowsWithKey(queue, k)
          /\ (claim[c].phase = "selected" /\ claim'[c].phase = "marked") =>
                /\ \A k \in claim[c].batch :
                      \E r \in queue :
                         /\ RowsWithKey(queue, k) = {r}
                         /\ r.priority = Priority(r.hours_since_test)
                         /\ Projected({r}) \subseteq claim'[c].returned
                         /\ RowsWithKey(queue', k) =
                               {[r EXCEPT !.last_checked = now]}
                /\ \A e \in claim'[c].returned :
                      \E r \in queue :
                         KeyOf(r) \in claim[c].batch /\ Projected({r}) = {e}]_vars

\* a call of size 2 holds one entry, selected when it was the only one of
\* tier 1, and an upsert of another key has since put a second tier-1 entry
\* beside it
C24_Witness ==
    \E c \in Claimers :
        /\ claim[c].phase = "selected"
        /\ claim[c].size = 2
        /\ Cardinality(claim[c].batch) = 1
        /\ \A d \in Claimers \ {c} : claim[d] = IdleClaim
        /\ \E r \in queue : r.priority = 1 /\ KeyOf(r) \notin Locked

\* C29: in every reachable state the tier of each monitoring entry is the
\* one the priority CASE gives for the hours stored in that same entry.
C29_TierFollowsStoredHours ==
    \A r \in queue : r.priority = Priority(r.hours_since_test)

\* an entry that an upsert has moved to tier 1 and a committed call has
\* marked and returned, beside an entry of tier 3 with no hours
C29_Witness ==
    /\ \E r \in queue, c \in Claimers :
          /\ r.priority = 1
          /\ r.hours_since_test >= CriticalHours
          /\ r.last_checked = now
          /\ claim[c].phase = "idle"
          /\ Projected({r}) \subseteq claim[c].returned
    /\ \E r \in queue : r.priority = 3 /\ r.hours_since_test = NULL

\* C30: put_item makes at most max_retries + 1 = 4 attempts; it makes another
\* attempt only after a throughput-exceeded answer, raises at the first
\* failure of another kind, raises after a fourth throttled attempt, and
\* returns at the first attempt that succeeds.
C30_PutItemBoundedRetry ==
    call.fn = "put_item" =>
       LET o == call.outcomes
           n == call.attempts
       IN  /\ MaxRetries + 1 = 4
           /\ n \in 1..4
           /\ \A i \in 1..(n - 1) : o[i] = "throttled"
           /\ o[n] = "ok" => ~call.raised /\ call.stored
           /\ o[n] = "error" => call.raised /\ ~call.stored
           /\ o[n] = "throttled" => n = 4 /\ call.raised /\ ~call.stored

\* four throttled answers in a row: the call raises after its fourth attempt
\* although a fifth would have succeeded
C30_Witness ==
    /\ call.fn = "put_item"
    /\ \A i \in 1..4 : call.outcomes[i] = "throttled"
    /\ call.outcomes[5] = "ok"
    /\ call.attempts = 4
    /\ call.raised

====
